---- MODULE Spec2Model ----
(***************************************************************************)
(* Bicubic spline evaluation over a regular 2D grid of 3D points           *)
(* (src/spline/spline.cpp) and the part of the driver that constructs,     *)
(* fills, benchmarks and verifies the grid (src/spline/main.cpp), one      *)
(* iteration of its MapSize loop per behaviour.                            *)
(*                                                                         *)
(* Numbers.  A float is modelled as an exact fraction <<num, den>> with    *)
(* den > 0 (den = 0 stands for the result of a division by zero).  The     *)
(* one place where binary32 rounding decides a property of the grid, the   *)
(* constructor's "minA + 1" and the subtraction that follows it, rounds    *)
(* to a 24 bit significand (F32).  Everything else is exact arithmetic.    *)
(*                                                                         *)
(* spline.h is not part of the sources: evaluatePosition, Spline::Fill and *)
(* Spline::GetNPoints are modelled from sections 4.1 and 4.2 of the        *)
(* specification.                                                          *)
(***************************************************************************)
EXTENDS Integers, Sequences, FiniteSets, TLC

VARIABLES
    args,          \* the arguments the constructor was called with
    spline,        \* the Spline object: fNA fNB fN fMinA fMinB fStepA fStepB fScaleA fScaleB fXYZ
    source,        \* where the fill values come from: "uniform" or "node"
    randomEngine,  \* state of the random engine that feeds uniform()
    searchPoints,  \* the queries, in the order of the vector
    pc,            \* position of the driver
    i,             \* the fill loop's index
    fills,         \* history: how often Fill was called for each index
    it,            \* number of search points the verification loop has taken
    p,             \* the current search point
    ps,            \* result of GetValueScalar(p)
    pv,            \* result of the 4-wide GetValue(p)
    pv16,          \* result of GetValue16(p)
    vectorizer2,   \* VectorizeBuffer<Point2>: input (a Point2V) and entries
    vectorizer3,   \* VectorizeBuffer<Point3>: input (a Point3V) and entries
    calls,         \* history: number of calls of vectorizer2 so far
    pvh,           \* result of the batched GetValue(vectorizer2.input)
    reads,         \* sample indices read by the most recent evaluation
    failed         \* the verification's verdict

vars == <<args, spline, source, randomEngine, searchPoints, pc, i, fills, it, p, ps,
          pv, pv16, vectorizer2, vectorizer3, calls, pvh, reads, failed>>

----------------------------------------------------------------------------
(* Bounds of the model *)

\* largest requested point count per axis
MaxBins == 5
\* number of start states of the random engine
NumSeeds == 2
\* float_v::size(), the number of lanes of the batched mode
Width == 2

----------------------------------------------------------------------------
(* Exact fractions *)

Abs(n) == IF n < 0 THEN -n ELSE n

RECURSIVE GCD(_, _)
GCD(a, b) == IF b = 0 THEN a ELSE GCD(b, a % b)

\* canonical form: lowest terms, positive denominator
RNorm(r) ==
    IF r[2] = 0 THEN <<(IF r[1] > 0 THEN 1 ELSE IF r[1] < 0 THEN -1 ELSE 0), 0>>
    ELSE LET g == GCD(Abs(r[1]), Abs(r[2]))
             s == IF r[2] < 0 THEN -1 ELSE 1
         IN  <<s * (r[1] \div g), s * (r[2] \div g)>>

Num(n) == <<n, 1>>
Zero == <<0, 1>>
One == <<1, 1>>
Two == <<2, 1>>
Half == <<1, 2>>

\* a + b; a common denominator is reused when one divides the other
RAdd(a, b) ==
    IF a[2] = b[2] THEN <<a[1] + b[1], a[2]>>
    ELSE IF a[2] % b[2] = 0 THEN <<a[1] + b[1] * (a[2] \div b[2]), a[2]>>
    ELSE IF b[2] % a[2] = 0 THEN <<a[1] * (b[2] \div a[2]) + b[1], b[2]>>
    ELSE <<a[1] * b[2] + b[1] * a[2], a[2] * b[2]>>

RNeg(a) == <<-a[1], a[2]>>
RSub(a, b) == RAdd(a, RNeg(b))
RMul(a, b) == <<a[1] * b[1], a[2] * b[2]>>
\* a / b; b = 0 gives a zero denominator (inf, or nan when a = 0 as well)
RDiv(a, b) ==
    IF b[1] = 0 THEN <<a[1], 0>>
    ELSE IF b[1] < 0 THEN <<-(a[1] * b[2]), -(a[2] * b[1])>>
    ELSE <<a[1] * b[2], a[2] * b[1]>>
RAbs(a) == <<Abs(a[1]), a[2]>>
RLe(a, b) == LET d == RSub(b, a) IN d[1] >= 0
RLt(a, b) == LET d == RSub(b, a) IN d[1] > 0
RFloor(a) == a[1] \div a[2]
IsFinite(a) == a[2] > 0

\* std::abs(x - y) > 0.00001f
Differs(x, y) ==
    LET d == RNorm(RAbs(RSub(x, y))) IN d[1] > d[2] \div 100000

----------------------------------------------------------------------------
(* binary32 rounding of an integer value: round to nearest, ties to even *)

RECURSIVE Ulp(_, _)
\* the spacing of floats around the integer n: 1 below 2^24, 2 below 2^25, ...
Ulp(n, u) == IF Abs(n) < 16777216 * u THEN u ELSE Ulp(n, 2 * u)

F32(n) ==
    LET u == Ulp(n, 1)
        lo == (n \div u) * u
        r == n - lo
    IN  IF 2 * r < u THEN lo
        ELSE IF 2 * r > u THEN lo + u
        ELSE IF (lo \div u) % 2 = 0 THEN lo ELSE lo + u

----------------------------------------------------------------------------
(* Spline::Spline *)

\* DataPoint::Zero(): four lanes x, y, z and the padding lane
DataPointZero == <<Zero, Zero, Zero, Zero>>

\* "nBins < 4 ? 4 : nBins"
PointCountOffByOne(nBins) == IF nBins < 3 THEN 4 ELSE nBins
PointCount(nBins) == IF nBins < 4 THEN 4 ELSE nBins

\* "((max <= min ? min + 1 : max) - min) / (n - 1)" in binary32
Step(min, max, n) ==
    RNorm(RDiv(Num(F32((IF max <= min THEN F32(min + 1) ELSE max) - min)), Num(n - 1)))

\* "fN(fNA * fNB)", "fXYZ(fN, DataPoint::Zero())"
SampleCountSquare(fNA, fNB) == fNA * fNA
SampleCount(fNA, fNB) == fNA * fNB

SplineCtor(minA, maxA, nBinsA, minB, maxB, nBinsB) ==
    LET fNA == PointCount(nBinsA)
        fNB == PointCount(nBinsB)
        fN == SampleCount(fNA, fNB)
        fStepA == Step(minA, maxA, fNA)
        fStepB == Step(minB, maxB, fNB)
    IN  [fNA |-> fNA, fNB |-> fNB, fN |-> fN,
         fMinA |-> Num(minA), fMinB |-> Num(minB),
         fStepA |-> fStepA, fStepB |-> fStepB,
         fScaleA |-> RNorm(RDiv(One, fStepA)),
         fScaleB |-> RNorm(RDiv(One, fStepB)),
         fXYZ |-> [k \in 0 .. fN - 1 |-> DataPointZero]]

\* Spline::GetNPoints
GetNPoints(s) == s.fN

\* Spline::Fill(ind, XYZ): stores the three components, the padding lane stays
Fill(s, ind, xyz) ==
    [s EXCEPT !.fXYZ = [@ EXCEPT ![ind] = <<xyz[1], xyz[2], xyz[3], @[4]>>]]

----------------------------------------------------------------------------
(* The driver's value sources *)

\* std::default_random_engine: a multiplicative congruential generator,
\* scaled down to the modulus 31
NextRandom(s) == (3 * s) % 31

\* std::uniform_real_distribution<float>(-1.f, 1.f): a value of [-1, 1)
Uniform(s) == RNorm(<<(s % 4) - 2, 2>>)

\* the node of flattened index ind, and the scenario's value {a, b, a*b} there
NodeA(s, ind) == RNorm(RAdd(s.fMinA, RMul(Num(ind \div s.fNB), s.fStepA)))
NodeB(s, ind) == RNorm(RAdd(s.fMinB, RMul(Num(ind % s.fNB), s.fStepB)))
NodeValue(s, ind) ==
    <<NodeA(s, ind), NodeB(s, ind), RNorm(RMul(NodeA(s, ind), NodeB(s, ind)))>>

----------------------------------------------------------------------------
(* Constructor arguments *)

\* the driver's bounds -1, 1 and a degenerate pair
AxisBounds == {<<-1, 1>>, <<0, 0>>}
\* requested counts
BinChoices == 4 .. MaxBins

Args(bounds, bins) ==
    [minA : {b[1] : b \in bounds}, maxA : {b[2] : b \in bounds}, nBinsA : bins,
     minB : {b[1] : b \in bounds}, maxB : {b[2] : b \in bounds}, nBinsB : bins]

\* main passes the same bounds for both axes
DriverArgs ==
    {a \in Args(AxisBounds, BinChoices) :
        <<a.minA, a.maxA>> \in AxisBounds /\ <<a.minB, a.maxB>> = <<a.minA, a.maxA>>}

\* for the constructor on its own: reversed bounds, bounds at 2^24 where
\* binary32 has no odd numbers any more, and counts below the minimum
CtorBounds == AxisBounds \cup {<<1, -1>>, <<16777216, 0>>, <<-16777216, -16777216>>}
CtorBins == {-1, 0, 3} \cup (4 .. MaxBins)

CtorArgs ==
    {a \in Args(CtorBounds, CtorBins) :
        <<a.minA, a.maxA>> \in CtorBounds /\ <<a.minB, a.maxB>> \in CtorBounds}

NoPoint3 == <<>>

----------------------------------------------------------------------------
(* main: searchPoints *)

\* the two corners that main puts first, and further points in and around [-1, 1)
FixedPoints ==
    <<<<Num(-1), Num(-1)>>, <<Num(1), Num(1)>>, <<Zero, Zero>>,
      <<<<1, 2>>, <<-1, 2>>>>, <<<<1, 4>>, <<3, 4>>>>, <<Num(-2), <<3, 2>>>>,
      <<<<3, 2>>, Num(2)>>>>

\* the nodes one line or more away from the first and the last line of each axis
InteriorNodes(s) ==
    {k \in 0 .. s.fN - 1 :
        /\ k \div s.fNB \in 1 .. s.fNA - 2
        /\ k % s.fNB \in 1 .. s.fNB - 2}

\* the grid's own nodes (minA + ia * stepA, minB + ib * stepB)
NodePoints(s, nodes) == {<<NodeA(s, k), NodeB(s, k)>> : k \in nodes}

RECURSIVE NodePointsFrom(_, _)
\* the interior nodes of index k and more, in the order of their indices
NodePointsFrom(s, k) ==
    IF k >= s.fN THEN <<>>
    ELSE (IF k \in InteriorNodes(s) THEN <<<<NodeA(s, k), NodeB(s, k)>>>> ELSE <<>>)
         \o NodePointsFrom(s, k + 1)

\* q, started r places later
Rotate(q, r) == SubSeq(q, r + 1, Len(q)) \o SubSeq(q, 1, r)

\* "searchPoints.emplace_back(...)": the corners, then the other points in one of
\* the orders the random engine may give them
SearchPoints(s, r) ==
    SubSeq(FixedPoints, 1, 2)
    \o Rotate(SubSeq(FixedPoints, 3, Len(FixedPoints)) \o NodePointsFrom(s, 0), r)

----------------------------------------------------------------------------
(* VectorizeBuffer *)

\* "InputV input; int entries = 0;": a buffer of dim components, every lane
\* holding whatever the default constructor leaves there
EmptyBuffer(dim, lane) ==
    [input |-> [c \in 1 .. dim |-> [l \in 1 .. Width |-> lane]], entries |-> 0]
\* what a lane may hold before the first assignment
LaneInit == {Zero, One}

\* simdize_assign(input, entries, x): component c of x into lane entries of input[c]
simdize_assign(input, entries, x) ==
    [c \in DOMAIN input |-> [input[c] EXCEPT ![entries + 1] = x[c]]]

\* VectorizeBuffer::operator() that writes x one lane too far
VectorizeBufferNextLane(v, x) ==
    [input |-> simdize_assign(v.input, (v.entries + 1) % Width, x),
     entries |-> (v.entries + 1) % Width]
\* VectorizeBuffer::operator(): the buffer after the call; the call returns entries
VectorizeBuffer(v, x) ==
    [input |-> simdize_assign(v.input, v.entries, x),
     entries |-> (v.entries + 1) % Width]

----------------------------------------------------------------------------
(* main: construction *)

InitWith(argset, sources, orders) ==
    /\ args \in argset
    /\ spline = SplineCtor(args.minA, args.maxA, args.nBinsA,
                           args.minB, args.maxB, args.nBinsB)
    /\ source \in sources
    /\ randomEngine \in (IF source = "uniform" THEN 1 .. NumSeeds ELSE {1})
    /\ searchPoints \in {SearchPoints(spline, r) : r \in orders}
    /\ pc = "fill"
    /\ i = 0
    /\ fills = [k \in DOMAIN spline.fXYZ |-> 0]
    /\ it = 0
    /\ p = <<>>
    /\ ps = NoPoint3
    /\ pv = NoPoint3
    /\ pv16 = NoPoint3
    /\ vectorizer2 = EmptyBuffer(2, Zero)
    /\ vectorizer3 = EmptyBuffer(3, Zero)
    /\ calls = 0
    /\ pvh = <<>>
    /\ reads = {}
    /\ failed = FALSE

Init == InitWith(DriverArgs, {"uniform", "node"}, 0 .. Width - 1)

----------------------------------------------------------------------------
(* main: fill loop *)

\* the fill loop stepping by two: every other index is left out
FillStepEveryOther ==
    /\ pc = "fill"
    /\ i < GetNPoints(spline)
    /\ spline' = Fill(spline, i, <<One, One, One>>)
    /\ fills' = [fills EXCEPT ![i] = @ + 1]
    /\ i' = i + 2
    /\ UNCHANGED <<args, source, randomEngine, searchPoints, pc, it, p, ps, pv, pv16,
                   vectorizer2, vectorizer3, calls, pvh, reads, failed>>

\* one iteration of "for (int i = 0; i < spline.GetNPoints(); ++i)"
FillStep ==
    /\ pc = "fill"
    /\ i < GetNPoints(spline)
    /\ IF source = "uniform"
       THEN LET r1 == NextRandom(randomEngine)
                r2 == NextRandom(r1)
                r3 == NextRandom(r2)
            IN  /\ spline' = Fill(spline, i, <<Uniform(r1), Uniform(r2), Uniform(r3)>>)
                /\ randomEngine' = r3
       ELSE /\ spline' = Fill(spline, i, NodeValue(spline, i))
            /\ randomEngine' = randomEngine
    /\ fills' = [fills EXCEPT ![i] = @ + 1]
    /\ i' = i + 1
    /\ UNCHANGED <<args, source, searchPoints, pc, it, p, ps, pv, pv16, vectorizer2,
                   vectorizer3, calls, pvh, reads, failed>>

\* the loop ends: "Runner runner(MinRepeat, MapSize)", the benchmarks come next
BeginBenchmark ==
    /\ pc = "fill"
    /\ ~(i < GetNPoints(spline))
    /\ pc' = "benchmark"
    /\ UNCHANGED <<args, spline, source, randomEngine, searchPoints, i, fills, it, p, ps,
                   pv, pv16, vectorizer2, vectorizer3, calls, pvh, reads, failed>>

----------------------------------------------------------------------------
(* The position resolver, spline.h, modelled from section 4.2 *)

RECURSIVE Lanes(_, _)
\* the SIMD vector of the lanes f[1] .. f[n]
Lanes(f, n) == IF n = 0 THEN <<>> ELSE Append(Lanes(f, n - 1), f[n])

Clamp(x, lo, hi) == IF x < lo THEN lo ELSE IF x > hi THEN hi ELSE x

\* one axis: raw index, cell index clamped to [1, n - 3], stencil base = cell - 1,
\* offset = raw index - cell (0 at the stencil's second sample)
ResolveAxis(coord, min, scale, n) ==
    LET raw == RMul(RSub(coord, min), scale)
        cell == Clamp(RFloor(raw), 1, n - 3)
    IN  [base |-> cell - 1, frac |-> RNorm(RSub(raw, Num(cell)))]

evaluatePosition(ab, min, scale, na, nb) ==
    LET A == ResolveAxis(ab[1], min[1], scale[1], na)
        B == ResolveAxis(ab[2], min[2], scale[2], nb)
    IN  [iA |-> A.base, iB |-> B.base, da |-> A.frac, db |-> B.frac]

\* the float_v overload: the same arithmetic in every lane
evaluatePositionV(ab, min, scale, na, nb) ==
    LET n == Len(ab[1])
        pos == Lanes([l \in 1 .. n |->
                        evaluatePosition(<<ab[1][l], ab[2][l]>>, min, scale, na, nb)], n)
    IN  [iA |-> Lanes([l \in 1 .. n |-> pos[l].iA], n),
         iB |-> Lanes([l \in 1 .. n |-> pos[l].iB], n),
         da |-> Lanes([l \in 1 .. n |-> pos[l].da], n),
         db |-> Lanes([l \in 1 .. n |-> pos[l].db], n)]

----------------------------------------------------------------------------
(* GetSpline3 *)

\* GetSpline3 with "(x - 1)" in place of "(x - 2)"
GetSpline3SameFactor(v0, v1, v2, v3, x) ==
    LET dv == RSub(v2, v1)
        z0 == RMul(Half, RSub(v2, v0))
        z1 == RMul(Half, RSub(v3, v1))
    IN  RAdd(RMul(RMul(x, x),
                  RAdd(RMul(RSub(z1, dv), RSub(x, One)),
                       RMul(RSub(z0, dv), RSub(x, One)))),
             RAdd(RMul(z0, x), v1))

\* GetSpline3 with the tangent z0 taken from v1 in place of v0
GetSpline3OneSided(v0, v1, v2, v3, x) ==
    LET dv == RSub(v2, v1)
        z0 == RMul(Half, RSub(v2, v1))
        z1 == RMul(Half, RSub(v3, v1))
    IN  RAdd(RMul(RMul(x, x),
                  RAdd(RMul(RSub(z1, dv), RSub(x, One)),
                       RMul(RSub(z0, dv), RSub(x, Two)))),
             RAdd(RMul(z0, x), v1))

GetSpline3(v0, v1, v2, v3, x) ==
    LET dv == RSub(v2, v1)
        z0 == RMul(Half, RSub(v2, v0))
        z1 == RMul(Half, RSub(v3, v1))
    IN  RAdd(RMul(RMul(x, x),
                  RAdd(RMul(RSub(z1, dv), RSub(x, One)),
                       RMul(RSub(z0, dv), RSub(x, Two)))),
             RAdd(RMul(z0, x), v1))

\* GetSpline3 instantiated with a SIMD type: every lane on its own
GetSpline3V(v0, v1, v2, v3, x) ==
    Lanes([l \in 1 .. Len(v0) |-> GetSpline3(v0[l], v1[l], v2[l], v3[l], x[l])], Len(v0))

\* a SIMD vector of n lanes built from one scalar
Broadcast(n, x) == Lanes([l \in 1 .. n |-> x], n)

\* Vc::simd_cast<float16>(a, b, c, d) and Vc::simd_cast<float4, k>(v)
SimdCast16(a, b, c, d) == a \o b \o c \o d
SimdCast4Unscaled(v, k) == SubSeq(v, k + 1, k + 4)
SimdCast4(v, k) == SubSeq(v, 4 * k + 1, 4 * k + 4)

----------------------------------------------------------------------------
(* The four evaluations.  Each gives the returned value, XYZ, and the set  *)
(* of indices of fXYZ it reads.                                            *)

\* fXYZ[ind]; the value of a read outside of the array is not defined, the
\* caller of an evaluation that made one gets an arbitrary result
Load(s, ind) == IF ind \in DOMAIN s.fXYZ THEN s.fXYZ[ind] ELSE DataPointZero

Point3Of(v) == <<RNorm(v[1]), RNorm(v[2]), RNorm(v[3])>>
\* one component of a Point3V, lane by lane
VectorOf(v) == Lanes([l \in 1 .. Len(v) |-> RNorm(v[l])], Len(v))

\* GetValueScalar with "ind += fNA" in place of "ind += fNB"
GetValueScalarStrideA(s, ab) ==
    LET at(pos) ==
            LET ind(r) == pos.iA * s.fNB + pos.iB + r * s.fNA
                row(ch, r) ==
                    GetSpline3(Load(s, ind(r))[ch], Load(s, ind(r) + 1)[ch],
                               Load(s, ind(r) + 2)[ch], Load(s, ind(r) + 3)[ch], pos.db)
                out(ch) ==
                    GetSpline3(row(ch, 0), row(ch, 1), row(ch, 2), row(ch, 3), pos.da)
            IN  [XYZ |-> Point3Of(<<out(1), out(2), out(3)>>),
                 reads |-> {ind(r) + c : r \in 0 .. 3, c \in 0 .. 3}]
    IN  at(evaluatePosition(ab, <<s.fMinA, s.fMinB>>, <<s.fScaleA, s.fScaleB>>,
                            s.fNA, s.fNB))

\* GetValueScalar with da and db exchanged
GetValueScalarSwapped(s, ab) ==
    LET at(pos) ==
            LET ind(r) == pos.iA * s.fNB + pos.iB + r * s.fNB
                row(ch, r) ==
                    GetSpline3(Load(s, ind(r))[ch], Load(s, ind(r) + 1)[ch],
                               Load(s, ind(r) + 2)[ch], Load(s, ind(r) + 3)[ch], pos.da)
                out(ch) ==
                    GetSpline3(row(ch, 0), row(ch, 1), row(ch, 2), row(ch, 3), pos.db)
            IN  [XYZ |-> Point3Of(<<out(1), out(2), out(3)>>),
                 reads |-> {ind(r) + c : r \in 0 .. 3, c \in 0 .. 3}]
    IN  at(evaluatePosition(ab, <<s.fMinA, s.fMinB>>, <<s.fScaleA, s.fScaleB>>,
                            s.fNA, s.fNB))

GetValueScalar(s, ab) ==
    LET at(pos) ==
            LET ind(r) == pos.iA * s.fNB + pos.iB + r * s.fNB
                row(ch, r) ==
                    GetSpline3(Load(s, ind(r))[ch], Load(s, ind(r) + 1)[ch],
                               Load(s, ind(r) + 2)[ch], Load(s, ind(r) + 3)[ch], pos.db)
                out(ch) ==
                    GetSpline3(row(ch, 0), row(ch, 1), row(ch, 2), row(ch, 3), pos.da)
            IN  [XYZ |-> Point3Of(<<out(1), out(2), out(3)>>),
                 reads |-> {ind(r) + c : r \in 0 .. 3, c \in 0 .. 3}]
    IN  at(evaluatePosition(ab, <<s.fMinA, s.fMinB>>, <<s.fScaleA, s.fScaleB>>,
                            s.fNA, s.fNB))

GetValue(s, ab) ==
    LET at(pos) ==
            LET ind(r) == pos.iA * s.fNB + pos.iB + r * s.fNB
                v(r) == GetSpline3V(Load(s, ind(r) + 0), Load(s, ind(r) + 1),
                                    Load(s, ind(r) + 2), Load(s, ind(r) + 3),
                                    Broadcast(4, pos.db))
            IN  [XYZ |-> Point3Of(GetSpline3V(v(0), v(1), v(2), v(3),
                                              Broadcast(4, pos.da))),
                 reads |-> {ind(r) + c : r \in 0 .. 3, c \in 0 .. 3}]
    IN  at(evaluatePosition(ab, <<s.fMinA, s.fMinB>>, <<s.fScaleA, s.fScaleB>>,
                            s.fNA, s.fNB))

GetValue16(s, ab) ==
    LET at(pos) ==
            LET m0 == pos.iA * s.fNB + pos.iB
                m1 == m0 + s.fNB
                m2 == m1 + s.fNB
                m3 == m2 + s.fNB
                col(c) == SimdCast16(Load(s, m0 + c), Load(s, m1 + c), Load(s, m2 + c),
                                     Load(s, m3 + c))
                res(v0123) ==
                    GetSpline3V(SimdCast4(v0123, 0), SimdCast4(v0123, 1),
                                SimdCast4(v0123, 2), SimdCast4(v0123, 3),
                                Broadcast(4, pos.da))
            IN  [XYZ |-> Point3Of(res(GetSpline3V(col(0), col(1), col(2), col(3),
                                                  Broadcast(16, pos.db)))),
                 reads |-> {m + c : m \in {m0, m1, m2, m3}, c \in 0 .. 3}]
    IN  at(evaluatePosition(ab, <<s.fMinA, s.fMinB>>, <<s.fScaleA, s.fScaleB>>,
                            s.fNA, s.fNB))

\* "Vc::tie(x[c], y[c], z[c]) = map[ind + c]": a gather, lane l from its own index
GatherFirstLane(s, ind, c, ch) ==
    Lanes([l \in 1 .. Len(ind) |-> Load(s, ind[1] + c)[ch]], Len(ind))
Gather(s, ind, c, ch) ==
    Lanes([l \in 1 .. Len(ind) |-> Load(s, ind[l] + c)[ch]], Len(ind))

\* Spline::GetValue(const Point2V &): ab is <<a of every lane, b of every lane>>,
\* the result <<x of every lane, y of every lane, z of every lane>>
GetValueV(s, ab) ==
    LET at(pos) ==
            LET n == Len(ab[1])
                ind(r) ==
                    Lanes([l \in 1 .. n |-> pos.iA[l] * s.fNB + pos.iB[l] + r * s.fNB], n)
                gather(ch, r, c) == Gather(s, ind(r), c, ch)
                row(ch, r) ==
                    GetSpline3V(gather(ch, r, 0), gather(ch, r, 1), gather(ch, r, 2),
                                gather(ch, r, 3), pos.db)
                out(ch) ==
                    VectorOf(GetSpline3V(row(ch, 0), row(ch, 1), row(ch, 2), row(ch, 3),
                                         pos.da))
            IN  [XYZ |-> <<out(1), out(2), out(3)>>,
                 reads |-> {ind(r)[l] + c : r \in 0 .. 3, c \in 0 .. 3, l \in 1 .. n}]
    IN  at(evaluatePositionV(ab, <<s.fMinA, s.fMinB>>, <<s.fScaleA, s.fScaleB>>,
                             s.fNA, s.fNB))

\* what the caller gets: the value, or anything at all after a read outside fXYZ
Garbage == {<<Zero, Zero, Zero>>, <<One, One, One>>}
Returned(s, r) == IF r.reads \subseteq DOMAIN s.fXYZ THEN {r.XYZ} ELSE Garbage
GarbageV == {[ch \in 1 .. 3 |-> [l \in 1 .. Width |-> g[ch]]] : g \in Garbage}
ReturnedV(s, r) == IF r.reads \subseteq DOMAIN s.fXYZ THEN {r.XYZ} ELSE GarbageV

----------------------------------------------------------------------------
(* main: benchmarks and verification of the filled grid *)

RECURSIVE HorizontalReads(_, _, _, _)
\* the Horizontal benchmark from point j on: "if (0 == vectorizer(p))
\* spline.GetValue(vectorizer.input)" with its own VectorizeBuffer
HorizontalReads(s, points, j, vectorizer) ==
    IF j > Len(points) THEN {}
    ELSE LET step(v) ==
                 (IF v.entries = 0 THEN GetValueV(s, v.input).reads ELSE {})
                 \cup HorizontalReads(s, points, j + 1, v)
         IN  step(VectorizeBuffer(vectorizer, points[j]))

\* one run of the function that runner.benchmark times: an evaluation of every
\* search point, Scalar, Vectorized, Vec16 or Horizontal; the values are dropped
Benchmark ==
    /\ pc = "benchmark"
    /\ \/ reads' = UNION {GetValueScalar(spline, searchPoints[j]).reads :
                             j \in 1 .. Len(searchPoints)}
       \/ reads' = UNION {GetValue(spline, searchPoints[j]).reads :
                             j \in 1 .. Len(searchPoints)}
       \/ reads' = UNION {GetValue16(spline, searchPoints[j]).reads :
                             j \in 1 .. Len(searchPoints)}
       \/ \E lane \in LaneInit :
             reads' = HorizontalReads(spline, searchPoints, 1, EmptyBuffer(2, lane))
    /\ UNCHANGED <<args, spline, source, randomEngine, searchPoints, pc, i, fills, it, p,
                   ps, pv, pv16, vectorizer2, vectorizer3, calls, pvh, failed>>

\* "bool failed = false; VectorizeBuffer<Point2> vectorizer2;
\* VectorizeBuffer<Point3> vectorizer3;"
BeginVerify ==
    /\ pc = "benchmark"
    /\ pc' = "point"
    /\ \E lane \in LaneInit :
          /\ vectorizer2' = EmptyBuffer(2, lane)
          /\ vectorizer3' = EmptyBuffer(3, lane)
    /\ reads' = {}
    /\ failed' = FALSE
    /\ UNCHANGED <<args, spline, source, randomEngine, searchPoints, i, fills, it, p, ps,
                   pv, pv16, calls, pvh>>

\* "for (const auto &p : searchPoints)"
NextPoint ==
    /\ pc = "point"
    /\ it < Len(searchPoints)
    /\ p' = searchPoints[it + 1]
    /\ it' = it + 1
    /\ pc' = "scalar"
    /\ UNCHANGED <<args, spline, source, randomEngine, searchPoints, i, fills, ps, pv,
                   pv16, vectorizer2, vectorizer3, calls, pvh, reads, failed>>

\* the loop is through: "if (failed) return 1; else cout << ..."
EndVerify ==
    /\ pc = "point"
    /\ ~(it < Len(searchPoints))
    /\ pc' = "done"
    /\ UNCHANGED <<args, spline, source, randomEngine, searchPoints, i, fills, it, p, ps,
                   pv, pv16, vectorizer2, vectorizer3, calls, pvh, reads, failed>>

\* the end of the loop's body: its locals go out of scope
EndIteration ==
    /\ pc = "next"
    /\ pc' = "point"
    /\ p' = <<>>
    /\ ps' = NoPoint3
    /\ pv' = NoPoint3
    /\ pv16' = NoPoint3
    /\ pvh' = <<>>
    /\ reads' = {}
    /\ UNCHANGED <<args, spline, source, randomEngine, searchPoints, i, fills, it,
                   vectorizer2, vectorizer3, calls, failed>>

\* any_of over the three components of two results
AnyDiffers(x, y) == \E ch \in 1 .. 3 : Differs(x[ch], y[ch])

\* the scalar step with an evaluation that keeps its result in the grid
VerifyScalarCaching ==
    /\ pc = "scalar"
    /\ LET r == GetValueScalar(spline, p)
       IN  /\ ps' \in Returned(spline, r)
           /\ reads' = r.reads
           /\ spline' = Fill(spline, 0, r.XYZ)
    /\ pc' = "vectorized"
    /\ UNCHANGED <<args, source, randomEngine, searchPoints, i, fills, it, p, pv, pv16,
                   vectorizer2, vectorizer3, calls, pvh, failed>>

\* "const auto &ps = spline.GetValueScalar(p)"
VerifyScalar ==
    /\ pc = "scalar"
    /\ LET r == GetValueScalar(spline, p)
       IN  /\ ps' \in Returned(spline, r)
           /\ reads' = r.reads
    /\ pc' = "vectorized"
    /\ UNCHANGED <<args, spline, source, randomEngine, searchPoints, i, fills, it, p, pv,
                   pv16, vectorizer2, vectorizer3, calls, pvh, failed>>

\* "if (TestInfo(Vectorized))": GetValue(p) against ps
VerifyVectorized ==
    /\ pc = "vectorized"
    /\ LET r == GetValue(spline, p)
       IN  /\ pv' \in Returned(spline, r)
           /\ reads' = r.reads
    /\ failed' = (failed \/ AnyDiffers(ps, pv'))
    /\ pc' = "vec16"
    /\ UNCHANGED <<args, spline, source, randomEngine, searchPoints, i, fills, it, p, ps,
                   pv16, vectorizer2, vectorizer3, calls, pvh>>

\* "if (TestInfo(Vec16))": GetValue16(p) against ps
VerifyVec16 ==
    /\ pc = "vec16"
    /\ LET r == GetValue16(spline, p)
       IN  /\ pv16' \in Returned(spline, r)
           /\ reads' = r.reads
    /\ failed' = (failed \/ AnyDiffers(ps, pv16'))
    /\ pc' = "vectorize"
    /\ UNCHANGED <<args, spline, source, randomEngine, searchPoints, i, fills, it, p, ps,
                   pv, vectorizer2, vectorizer3, calls, pvh>>

\* "vectorizer3(ps); if (0 == vectorizer2(p))", the call returns 0: the buffers are full
VerifyVectorize ==
    /\ pc = "vectorize"
    /\ vectorizer3' = VectorizeBuffer(vectorizer3, ps)
    /\ vectorizer2' = VectorizeBuffer(vectorizer2, p)
    /\ calls' = calls + 1
    /\ 0 = vectorizer2'.entries
    /\ pc' = "horizontal"
    /\ UNCHANGED <<args, spline, source, randomEngine, searchPoints, i, fills, it, p, ps,
                   pv, pv16, pvh, reads, failed>>

\* "vectorizer3(ps); if (0 == vectorizer2(p))", the call returns another number
VerifySkip ==
    /\ pc = "vectorize"
    /\ vectorizer3' = VectorizeBuffer(vectorizer3, ps)
    /\ vectorizer2' = VectorizeBuffer(vectorizer2, p)
    /\ calls' = calls + 1
    /\ 0 # vectorizer2'.entries
    /\ pc' = "next"
    /\ UNCHANGED <<args, spline, source, randomEngine, searchPoints, i, fills, it, p, ps,
                   pv, pv16, pvh, reads, failed>>

\* "if (TestInfo(Horizontal))": the batched GetValue against vectorizer3.input
VerifyHorizontal ==
    /\ pc = "horizontal"
    /\ LET r == GetValueV(spline, vectorizer2.input)
       IN  /\ pvh' \in ReturnedV(spline, r)
           /\ reads' = r.reads
    /\ failed' = (failed \/ \E ch \in 1 .. 3, l \in 1 .. Width :
                                Differs(vectorizer3.input[ch][l], pvh'[ch][l]))
    /\ pc' = "next"
    /\ UNCHANGED <<args, spline, source, randomEngine, searchPoints, i, fills, it, p, ps,
                   pv, pv16, vectorizer2, vectorizer3, calls>>

Next ==
    \/ FillStep
    \/ BeginBenchmark
    \/ Benchmark
    \/ BeginVerify
    \/ NextPoint
    \/ VerifyScalar
    \/ VerifyVectorized
    \/ VerifyVec16
    \/ VerifyVectorize
    \/ VerifySkip
    \/ VerifyHorizontal
    \/ EndIteration
    \/ EndVerify

Spec == Init /\ [][Next]_vars

\* the constructor with any arguments, followed by the fill
InitCtor == InitWith(CtorArgs, {"uniform"}, {0})
NextCtor == FillStep \/ BeginBenchmark
SpecCtor == InitCtor /\ [][NextCtor]_vars

----------------
(* Properties *)

\* positions of the driver at which ps holds the scalar result for p
PastScalar == {"vectorized", "vec16", "vectorize", "horizontal", "next"}
\* positions at which ps, pv and pv16 all hold the results for p
PastVec16 == {"vectorize", "horizontal", "next"}

\* the last sample line of an axis, min + (count - 1) * step
MaxA(s) == RNorm(RAdd(s.fMinA, RMul(Num(s.fNA - 1), s.fStepA)))
MaxB(s) == RNorm(RAdd(s.fMinB, RMul(Num(s.fNB - 1), s.fStepB)))

InDomain(s, q) ==
    /\ RLe(s.fMinA, q[1]) /\ RLe(q[1], MaxA(s))
    /\ RLe(s.fMinB, q[2]) /\ RLe(q[2], MaxB(s))

\* C1: after a complete fill, for a query inside the domain, the results of
\* GetValueScalar, the 4-wide GetValue and GetValue16 agree in every component
\* (within 1e-5, and exactly under exact arithmetic); the driver's comparison
\* never fails.
C1_CrossModeEquivalence ==
    (pc \in PastVec16 /\ InDomain(spline, p)) =>
        /\ ~AnyDiffers(ps, pv)
        /\ ~AnyDiffers(ps, pv16)
        /\ ps = pv
        /\ ps = pv16
        /\ ~failed

C1_Witness ==
    /\ pc = "next"
    /\ InDomain(spline, p)
    /\ p \notin NodePoints(spline, DOMAIN spline.fXYZ)
    /\ spline.fNA # spline.fNB
    /\ ps = pv
    /\ ps = pv16
    /\ ps[1] # Zero /\ ps[2] # Zero /\ ps[3] # Zero

\* the queries of the batch, lane by lane
LanePoint(l) == <<vectorizer2.input[1][l], vectorizer2.input[2][l]>>

\* C2: every lane of the batched GetValue's result is the scalar result of
\* that lane's own query, whatever the other lanes hold.
C2_BatchConsistency ==
    (pc = "next" /\ pvh # <<>>) =>
        \A l \in 1 .. Width :
            LET one == GetValueScalar(spline, LanePoint(l)).XYZ
            IN  \A ch \in 1 .. 3 :
                    /\ pvh[ch][l] = one[ch]
                    /\ ~Differs(pvh[ch][l], one[ch])

\* the stencil base of a query
BaseOf(s, q) ==
    LET pos == evaluatePosition(q, <<s.fMinA, s.fMinB>>, <<s.fScaleA, s.fScaleB>>,
                                s.fNA, s.fNB)
    IN  <<pos.iA, pos.iB>>

C2_Witness ==
    /\ pc = "next"
    /\ pvh # <<>>
    /\ \E l, k \in 1 .. Width :
          /\ BaseOf(spline, LanePoint(l))[1] # BaseOf(spline, LanePoint(k))[1]
          /\ BaseOf(spline, LanePoint(l))[2] # BaseOf(spline, LanePoint(k))[2]
          /\ pvh[1][l] # pvh[1][k]
    /\ \A l \in 1 .. Width : \A ch \in 1 .. 3 :
          pvh[ch][l] = GetValueScalar(spline, LanePoint(l)).XYZ[ch]

C4_MinimumSizeGuard ==
    /\ spline.fNA = (IF args.nBinsA > 4 THEN args.nBinsA ELSE 4)
    /\ spline.fNB = (IF args.nBinsB > 4 THEN args.nBinsB ELSE 4)
    /\ spline.fNA >= 4
    /\ spline.fNB >= 4

C4_Witness ==
    /\ args.nBinsA = 3
    /\ args.nBinsB < 0
    /\ spline.fNA = 4
    /\ spline.fNB = 4
    /\ pc = "benchmark"

\* C5: at all times the number of stored samples is pointCountA * pointCountB
\* and GetNPoints reports that number.
C5_SampleCount ==
    /\ DOMAIN spline.fXYZ = 0 .. (spline.fNA * spline.fNB - 1)
    /\ GetNPoints(spline) = spline.fNA * spline.fNB

C5_Witness ==
    /\ pc = "next"
    /\ pvh # <<>>
    /\ spline.fNA # spline.fNB
    /\ Cardinality(DOMAIN spline.fXYZ) = spline.fNA * spline.fNB

\* C6: for every choice of bounds the steps are positive, step being
\* ((max <= min ? min + 1 : max) - min) / (pointCount - 1).
C6_StepPositive ==
    /\ RLt(Zero, spline.fStepA)
    /\ RLt(Zero, spline.fStepB)
    /\ spline.fStepA =
          RNorm(<<(IF args.maxA <= args.minA THEN args.minA + 1 ELSE args.maxA) - args.minA,
                  spline.fNA - 1>>)
    /\ spline.fStepB =
          RNorm(<<(IF args.maxB <= args.minB THEN args.minB + 1 ELSE args.maxB) - args.minB,
                  spline.fNB - 1>>)

\* the first three lanes of a stored sample
Stored(s, k) == <<s.fXYZ[k][1], s.fXYZ[k][2], s.fXYZ[k][3]>>

\* C7: on a filled grid GetValueScalar at the interior grid-line coordinate
\* (minA + i * stepA, minB + j * stepB) returns the sample stored at
\* i * pointCountB + j.
C7_ExactAtControlPoints ==
    pc \in PastScalar =>
        \A k \in InteriorNodes(spline) :
            p = <<NodeA(spline, k), NodeB(spline, k)>> => ps = Stored(spline, k)

C7_Witness ==
    /\ pc = "vectorized"
    /\ source = "uniform"
    /\ spline.fNA = 5
    /\ \E k \in InteriorNodes(spline) :
          /\ k \div spline.fNB = spline.fNA - 2
          /\ k % spline.fNB = 1
          /\ p = <<NodeA(spline, k), NodeB(spline, k)>>
          /\ ps = Stored(spline, k)
          /\ ps # Stored(spline, k - spline.fNB)
          /\ ps # Stored(spline, k + 1)

\* queries at or beyond the first, at or beyond the last corner of the grid
AtOrBelowLowerCorner(s, q) == RLe(q[1], s.fMinA) /\ RLe(q[2], s.fMinB)
AtOrAboveUpperCorner(s, q) == RLe(MaxA(s), q[1]) /\ RLe(MaxB(s), q[2])
AtOrBeyondCorner(s, q) == AtOrBelowLowerCorner(s, q) \/ AtOrAboveUpperCorner(s, q)

RMin(a, b) == IF RLe(a, b) THEN a ELSE b
RMax(a, b) == IF RLe(a, b) THEN b ELSE a
\* the nearest coordinate inside the domain
ClampToDomain(s, q) ==
    <<RMax(s.fMinA, RMin(q[1], MaxA(s))), RMax(s.fMinB, RMin(q[2], MaxB(s)))>>

\* the weight of stencil sample k in the cubic through samples 1 and 2 with
\* centred tangents, at offset x from sample 1
Weight(k, x) ==
    LET x2 == RMul(x, x)
        x3 == RMul(x2, x)
    IN  RNorm(RMul(Half,
                   CASE k = 0 -> RSub(RSub(RMul(Two, x2), x3), x)
                     [] k = 1 -> RAdd(RSub(RMul(Num(3), x3), RMul(Num(5), x2)), Two)
                     [] k = 2 -> RAdd(RSub(RMul(Num(4), x2), RMul(Num(3), x3)), x)
                     [] k = 3 -> RSub(x3, x2)))

Sum4(f) == RNorm(RAdd(RNorm(RAdd(f[0], f[1])), RNorm(RAdd(f[2], f[3]))))

\* the bicubic polynomial of the cell with stencil base (bA, bB) at offsets (da, db)
CellPolynomial(s, bA, bB, da, db) ==
    LET wA == [r \in 0 .. 3 |-> Weight(r, da)]
        wB == [c \in 0 .. 3 |-> Weight(c, db)]
        at(ch) == Sum4([r \in 0 .. 3 |->
                          RNorm(RMul(wA[r],
                                     Sum4([c \in 0 .. 3 |->
                                             RNorm(RMul(wB[c],
                                                        s.fXYZ[(bA + r) * s.fNB + bB + c][ch]))])))])
    IN  Point3Of(<<at(1), at(2), at(3)>>)

\* the stencil of the cell with base (bA, bB)
Stencil(s, bA, bB) == {(bA + r) * s.fNB + bB + c : r \in 0 .. 3, c \in 0 .. 3}

\* raw index of a coordinate
RawA(s, q) == RMul(RSub(q[1], s.fMinA), s.fScaleA)
RawB(s, q) == RMul(RSub(q[2], s.fMinB), s.fScaleB)

Scenario ==
    /\ args = [minA |-> -1, maxA |-> 1, nBinsA |-> 4, minB |-> -1, maxB |-> 1, nBinsB |-> 4]
    /\ source = "node"

Approx(x, y) == \A ch \in 1 .. 3 : ~Differs(x[ch], y[ch])

\* C9: the scenario's grid evaluates to about {0, 0, 0} at (0, 0) and to about
\* {-1, -1, 1} at the corner (-1, -1).
C9_ConcreteScenario ==
    (Scenario /\ pc \in PastScalar) =>
        /\ p = <<Zero, Zero>> => Approx(ps, <<Zero, Zero, Zero>>)
        /\ p = <<Num(-1), Num(-1)>> => Approx(ps, <<Num(-1), Num(-1), One>>)

C9_Witness ==
    /\ Scenario
    /\ pc = "vectorized"
    /\ p = <<Num(-1), Num(-1)>>
    /\ ps = <<Num(-1), Num(-1), One>>
    /\ Stored(spline, 5) = <<<<-1, 3>>, <<-1, 3>>, <<1, 9>>>>

\* C10: a step of an evaluation leaves the grid as it was (samples, counts,
\* minimums, steps and inverse steps), and what it returns is the value for its
\* query on the grid as filled.
C10_EvaluationsLeaveGrid ==
    [][pc # "fill" =>
          /\ spline' = spline
          /\ (pc = "scalar" => ps' = GetValueScalar(spline, p).XYZ)
          /\ (pc = "vectorized" => pv' = GetValue(spline, p).XYZ)
          /\ (pc = "vec16" => pv16' = GetValue16(spline, p).XYZ)
          /\ (pc = "horizontal" => pvh' = GetValueV(spline, vectorizer2.input).XYZ)]_vars

C10_Witness ==
    /\ pc = "next"
    /\ pvh # <<>>
    /\ source = "uniform"
    /\ ps # <<Zero, Zero, Zero>>
    /\ ps = GetValueScalar(spline, p).XYZ
    /\ spline.fXYZ[0] # DataPointZero

\* C11: in the driver every index of [0, GetNPoints()) is filled exactly once,
\* in the order of the indices, before the first evaluation on the grid: while
\* the fill loop runs nothing is evaluated, the indices below i are filled once
\* and the others not yet; from the first evaluation on every index has been
\* filled exactly once and no fill follows.
C11_FillThenEvaluate ==
    /\ DOMAIN fills = 0 .. GetNPoints(spline) - 1
    /\ \A k \in DOMAIN fills :
          /\ fills[k] = (IF pc = "fill" /\ k >= i THEN 0 ELSE 1)
          /\ fills[k] = 0 => spline.fXYZ[k] = DataPointZero
    /\ pc = "fill" => reads = {} /\ ps = NoPoint3 /\ pvh = <<>>
    /\ pc # "fill" => i = GetNPoints(spline)

C11_Witness ==
    /\ pc = "benchmark"
    /\ reads # {}
    /\ spline.fNA # spline.fNB
    /\ \A k \in DOMAIN fills : fills[k] = 1
    /\ spline.fXYZ[GetNPoints(spline) - 1] # DataPointZero

\* lane l of a Point3V
LaneValue(v, l) == <<v[1][l], v[2][l], v[3][l]>>

\* C12: after k calls on buffers of Width lanes that started empty, entries is
\* k mod Width, within 0 .. Width-1; the call returns 0 (the batch is compared)
\* exactly when k is a multiple of Width, and then lane j holds the
\* (k-Width+j+1)-th query in vectorizer2 and that query's own scalar result in
\* vectorizer3; a batch is evaluated only when full, so the points after the
\* last multiple of Width are never in an evaluated batch.
C12_VectorizeBufferBatching ==
    pc \notin {"fill", "benchmark"} =>
        /\ vectorizer2.entries = calls % Width
        /\ vectorizer3.entries = calls % Width
        /\ vectorizer2.entries \in 0 .. Width - 1
        /\ pc = "horizontal" => calls > 0 /\ calls % Width = 0
        /\ (pc = "next" /\ pvh = <<>>) => calls % Width # 0
        /\ (calls > 0 /\ calls % Width = 0) =>
              \A j \in 0 .. Width - 1 :
                  /\ LanePoint(j + 1) = searchPoints[calls - Width + j + 1]
                  /\ LaneValue(vectorizer3.input, j + 1) =
                        GetValueScalar(spline, searchPoints[calls - Width + j + 1]).XYZ
        /\ pvh # <<>> =>
              /\ calls % Width = 0
              /\ calls <= Len(searchPoints) - (Len(searchPoints) % Width)
        /\ pc = "done" =>
              /\ calls = Len(searchPoints)
              /\ vectorizer2.entries = Len(searchPoints) % Width

C12_Witness ==
    /\ pc = "next"
    /\ pvh # <<>>
    /\ calls = 2 * Width
    /\ Len(searchPoints) % Width # 0
    /\ \A j \in 1 .. Width : LanePoint(j) = searchPoints[Width + j]
    /\ LanePoint(1) # LanePoint(2)
    /\ LaneValue(vectorizer3.input, 1) # LaneValue(vectorizer3.input, 2)
====
